---- MODULE Spec2Model ----
(***************************************************************************)
(* A state-machine model of script.js, the interactive internet-speed      *)
(* table: the CSV load and normalisation, the session store of manually    *)
(* added rows, the filtered / sorted / paginated table, the three          *)
(* analyses, the region chart and the two exports.                         *)
(*                                                                         *)
(* JavaScript strings are modelled as sequences of one-character strings   *)
(* so that trim, toLowerCase, includes, Number and parseFloat are computed *)
(* rather than assumed.  Numbers are integers (no text of the model has a  *)
(* decimal point or an exponent), NaN and null are explicit values.        *)
(***************************************************************************)
EXTENDS Integers, Sequences, FiniteSets, TLC

(***************************************************************************)
(* Bounds of the model.                                                    *)
(***************************************************************************)
MaxCsvRows == 2
MaxSaved == 1
MaxStored == 2
MaxTableRows == 3
MaxPage == 3

(***************************************************************************)
(* Characters and strings.                                                 *)
(***************************************************************************)
\* The characters of the model's texts, in UTF-16 code-unit order.
Alphabet ==
  <<" ", "-", "0", "2", "3", "5", "7", "A", "L", "N", "S", "U",
    "a", "b", "l", "n", "s", "u">>

CharCode(c) == CHOOSE i \in 1..Len(Alphabet) : Alphabet[i] = c

IsDigit(c) == c \in {"0", "2", "3", "5", "7"}

DigitValue(c) ==
  CASE c = "0" -> 0 [] c = "2" -> 2 [] c = "3" -> 3 [] c = "5" -> 5 [] c = "7" -> 7

\* String.prototype.toLowerCase, one character.
LowerChar(c) ==
  CASE c = "A" -> "a" [] c = "L" -> "l" [] c = "N" -> "n" [] c = "S" -> "s"
    [] c = "U" -> "u" [] OTHER -> c

toLowerCase(s) == [i \in 1..Len(s) |-> LowerChar(s[i])]

RECURSIVE TrimStart(_)
TrimStart(s) == IF s # <<>> /\ Head(s) = " " THEN TrimStart(Tail(s)) ELSE s

RECURSIVE TrimEnd(_)
TrimEnd(s) ==
  IF s # <<>> /\ s[Len(s)] = " " THEN TrimEnd(SubSeq(s, 1, Len(s) - 1)) ELSE s

\* String.prototype.trim
trim(s) == TrimEnd(TrimStart(s))

\* String.prototype.includes: q occurs in s as a contiguous substring.
includes(s, q) ==
  \E i \in 0..(Len(s) - Len(q)) : SubSeq(s, i + 1, i + Len(q)) = q

\* s < t for two strings: lexicographic on code units.
RECURSIVE StrLess(_, _)
StrLess(s, t) ==
  IF t = <<>> THEN FALSE
  ELSE IF s = <<>> THEN TRUE
  ELSE IF Head(s) = Head(t) THEN StrLess(Tail(s), Tail(t))
  ELSE CharCode(Head(s)) < CharCode(Head(t))

(***************************************************************************)
(* JavaScript values: numbers, NaN, null.                                  *)
(***************************************************************************)
JsNull == [t |-> "null", n |-> 0]
JsNaN == [t |-> "nan", n |-> 0]
Num(n) == [t |-> "num", n |-> n]

\* v != null
NotNull(v) == v.t # "null"

\* a - b: null counts as 0, the difference with NaN is NaN.
Minus(a, b) == IF a.t = "nan" \/ b.t = "nan" THEN JsNaN ELSE Num(a.n - b.n)

\* The value of a string of decimal digits.
RECURSIVE DigitsValue(_)
DigitsValue(s) ==
  IF s = <<>> THEN 0
  ELSE 10 * DigitsValue(SubSeq(s, 1, Len(s) - 1)) + DigitValue(s[Len(s)])

AllDigits(s) == s # <<>> /\ \A i \in 1..Len(s) : IsDigit(s[i])

\* Number(s): the whole trimmed text must be a numeral; the empty text is 0.
Number(s) ==
  LET v == trim(s) IN
  IF v = <<>> THEN Num(0)
  ELSE IF AllDigits(v) THEN Num(DigitsValue(v))
  ELSE IF Head(v) = "-" /\ AllDigits(Tail(v)) THEN Num(0 - DigitsValue(Tail(v)))
  ELSE JsNaN

\* The longest prefix of s made of digits.
RECURSIVE DigitPrefix(_)
DigitPrefix(s) ==
  IF s # <<>> /\ IsDigit(Head(s)) THEN <<Head(s)>> \o DigitPrefix(Tail(s)) ELSE <<>>

\* parseFloat(s): leading blanks are skipped and the longest numeric prefix is read.
parseFloat(s) ==
  LET v == TrimStart(s) IN
  IF DigitPrefix(v) # <<>> THEN Num(DigitsValue(DigitPrefix(v)))
  ELSE IF v # <<>> /\ Head(v) = "-" /\ DigitPrefix(Tail(v)) # <<>>
    THEN Num(0 - DigitsValue(DigitPrefix(Tail(v))))
  ELSE JsNaN

\* x || null for a number x: 0 and NaN are falsy.
NumberOrNull(x) == IF x.t = "num" /\ x.n # 0 THEN x ELSE JsNull

\* JSON.parse(JSON.stringify(v)) for a number: NaN is written as null.
JsonNumber(v) == IF v.t = "nan" THEN JsNull ELSE v

(***************************************************************************)
(* Texts of the model.                                                     *)
(***************************************************************************)
Empty == <<>>
S_All == <<"A", "l", "l">>
S_null == <<"n", "u", "l", "l">>

\* One cell of a row parsed by Papa.parse with header: true.  A row shorter
\* than the header has no property for the missing columns (has = FALSE).
Cell(s) == [has |-> TRUE, text |-> s]
Absent == [has |-> FALSE, text |-> Empty]

\* The rows a data.csv of the model is made of.
RawPool ==
  { [country |-> Cell(<<"A", "l">>), major_area |-> Cell(<<"A", "s">>),
     region |-> Cell(<<"S", "a">>), y23 |-> Cell(<<"3">>), y24 |-> Cell(<<" ", "5", " ">>)],
    [country |-> Cell(<<"S", "u", "b">>), major_area |-> Cell(<<"N", "a">>),
     region |-> Cell(<<"a", "s">>), y23 |-> Cell(<<"N", "U", "L", "L">>), y24 |-> Cell(<<"5">>)],
    [country |-> Cell(<<" ">>), major_area |-> Absent,
     region |-> Cell(Empty), y23 |-> Cell(<<" ">>), y24 |-> Cell(<<"7">>)],
    [country |-> Cell(<<"N", "u", "l", "l">>), major_area |-> Cell(<<"N", "a">>),
     region |-> Cell(<<"S", "a">>), y23 |-> Cell(<<"3">>), y24 |-> Absent],
    [country |-> Cell(<<"U", "l", "a">>), major_area |-> Cell(<<"7">>),
     region |-> Cell(<<"S", "a">>), y23 |-> Cell(<<"0">>), y24 |-> Cell(<<"5">>)],
    [country |-> Cell(<<"L", "a", "s">>), major_area |-> Cell(<<"a", "s">>),
     region |-> Cell(<<"N", "a">>), y23 |-> Cell(<<"-", "2">>), y24 |-> Cell(<<"a", "b">>)] }

\* What the add-record form can hold when it is submitted.
FormPool ==
  { [a_country |-> <<" ", "N", "u", "s">>, a_major |-> <<"N", "a">>,
     a_region |-> <<"A", "s">>, a_2023 |-> <<"2">>, a_2024 |-> <<"7", "a">>],
    [a_country |-> <<"a", "l">>, a_major |-> <<"A", "S">>,
     a_region |-> <<"s", "u">>, a_2023 |-> <<"0">>, a_2024 |-> <<"3">>],
    [a_country |-> <<" ">>, a_major |-> <<"N", "a">>,
     a_region |-> <<"A", "s">>, a_2023 |-> Empty, a_2024 |-> Empty] }

\* What the search box can hold.
SearchPool == { Empty, <<"a">>, <<" ", "S", "A">> }

\* The page sizes the pageSize select offers.
PageSizeOptions == {1, 2}

\* The column keys of the table header.
SortKeys == {"country", "year 2024"}
NoKey == "null"

(***************************************************************************)
(* normalizeRaw                                                            *)
(***************************************************************************)
\* rr[k] after the loop over the row's keys: the trimmed text, null when the
\* text is "null" in any case, undefined when the row has no such property.
CleanCell(c) ==
  IF ~c.has THEN [t |-> "undefined", s |-> Empty]
  ELSE LET v == trim(c.text) IN
       IF toLowerCase(v) = S_null THEN [t |-> "null", s |-> Empty]
       ELSE [t |-> "str", s |-> v]

\* truthiness of rr[k]
Truthy(x) == x.t = "str" /\ x.s # Empty

\* rr[k] ? Number(rr[k]) : null
CoerceYear(c) == LET x == CleanCell(c) IN IF Truthy(x) THEN Number(x.s) ELSE JsNull

\* rr[k] || ""
TextOrEmpty(c) == LET x == CleanCell(c) IN IF Truthy(x) THEN x.s ELSE Empty

\* Growth without the test of the 2023 value.
GrowthWithout2023Test(y23, y24) == IF NotNull(y24) THEN Minus(y24, y23) ELSE JsNull

\* (y24 != null && y23 != null) ? y24 - y23 : null
Growth(y23, y24) == IF NotNull(y24) /\ NotNull(y23) THEN Minus(y24, y23) ELSE JsNull

\* The body of raw.map(r => ...)
normalizeRow(r) ==
  LET y23 == CoerceYear(r.y23)
      y24 == CoerceYear(r.y24)
  IN [country |-> TextOrEmpty(r.country),
      major_area |-> TextOrEmpty(r.major_area),
      region |-> TextOrEmpty(r.region),
      y23 |-> y23, y24 |-> y24, growth |-> Growth(y23, y24)]

normalizeRaw(rawRows) == [i \in 1..Len(rawRows) |-> normalizeRow(rawRows[i])]

(***************************************************************************)
(* addRecordFromForm: the record built from the form, and its validation.  *)
(***************************************************************************)
FormValid(f) ==
  trim(f.a_country) # Empty /\ trim(f.a_major) # Empty /\ trim(f.a_region) # Empty

FormRecord(f) ==
  LET v23 == NumberOrNull(parseFloat(f.a_2023))
      v24 == NumberOrNull(parseFloat(f.a_2024))
  IN [country |-> trim(f.a_country), major_area |-> trim(f.a_major),
      region |-> trim(f.a_region),
      y23 |-> v23, y24 |-> v24, growth |-> Growth(v23, v24)]

\* JSON.parse(JSON.stringify(row)): what a row is once it has been through
\* localStorage.
JsonRow(r) ==
  [r EXCEPT !.y23 = JsonNumber(@), !.y24 = JsonNumber(@), !.growth = JsonNumber(@)]

(***************************************************************************)
(* Array.prototype.sort                                                    *)
(***************************************************************************)
Perms(n) == { p \in [1..n -> 1..n] : \A i, j \in 1..n : i # j => p[i] # p[j] }

Permuted(s, p) == [i \in 1..Len(s) |-> s[p[i]]]

\* The answers of a comparator on the elements of s: c[i][j] is the sign of
\* Cmp(s[i], s[j]).  "Compares equal" must be transitive for the sort to
\* rely on it; a comparator that answers 0 or NaN for a NaN operand is not.
ConsistentCmp(s, c) ==
  \A i, j, k \in 1..Len(s) : (c[i][j] = 0 /\ c[j][k] = 0) => c[i][k] = 0

\* The stable sort of s: elements that compare equal keep their order.
StableSort(s, c) ==
  LET p == CHOOSE q \in Perms(Len(s)) :
             \A i, j \in 1..Len(s) :
               i < j => \/ c[q[i]][q[j]] < 0
                        \/ (c[q[i]][q[j]] = 0 /\ q[i] < q[j])
  IN Permuted(s, p)

\* What s.sort(Cmp) can leave in s: the stable sort, or, for an inconsistent
\* comparator, an order the engine is free to choose.
SortOutcomes(s, c) ==
  IF ConsistentCmp(s, c) THEN { StableSort(s, c) }
  ELSE { Permuted(s, p) : p \in Perms(Len(s)) }

\* s.filter(...): the elements of s[i..] whose index is in keep.
RECURSIVE Filter(_, _, _)
Filter(s, keep, i) ==
  IF i > Len(s) THEN <<>>
  ELSE (IF i \in keep THEN <<s[i]>> ELSE <<>>) \o Filter(s, keep, i + 1)

\* s.slice(0, n)
Take(s, n) == SubSeq(s, 1, IF Len(s) < n THEN Len(s) ELSE n)

Reverse(s) == [i \in 1..Len(s) |-> s[Len(s) + 1 - i]]

(***************************************************************************)
(* refreshTable                                                            *)
(***************************************************************************)
\* TableKeeps with a search that reads the country alone.
TableKeepsCountryOnly(r, sel, q) ==
  /\ ~(sel # Empty /\ sel # S_All /\ toLowerCase(r.major_area) # toLowerCase(sel))
  /\ ~(q # Empty /\ ~includes(toLowerCase(r.country), q))

\* The rows kept by the filter of refreshTable.
TableKeeps(r, sel, q) ==
  /\ ~(sel # Empty /\ sel # S_All /\ toLowerCase(r.major_area) # toLowerCase(sel))
  /\ ~(/\ q # Empty
       /\ ~includes(toLowerCase(r.country), q)
       /\ ~includes(toLowerCase(r.region), q))

\* A < B for the values of one column: strings by code units, numbers by
\* value with null (read as "") counting as 0, nothing is below or above NaN.
ColumnLess(a, b, key) ==
  IF key = "country" THEN StrLess(toLowerCase(a.country), toLowerCase(b.country))
  ELSE /\ a.y24.t # "nan"
       /\ b.y24.t # "nan"
       /\ a.y24.n < b.y24.n

RowCmp(a, b, key, asc) ==
  IF ColumnLess(a, b, key) THEN (IF asc THEN -1 ELSE 1)
  ELSE IF ColumnLess(b, a, key) THEN (IF asc THEN 1 ELSE -1)
  ELSE 0

SortedLists(rows, key, asc) ==
  IF key = NoKey THEN { rows }
  ELSE SortOutcomes(rows, [i \in 1..Len(rows) |-> [j \in 1..Len(rows) |->
                             RowCmp(rows[i], rows[j], key, asc)]])

\* Math.ceil(total / size)
CeilDiv(total, size) == (total + size - 1) \div size

MaxReentry == 3

\* The page refreshTable ends on, with the number of times it re-entered
\* itself; returned is FALSE when it is still re-entering after MaxReentry
\* calls.
RECURSIVE Paginate(_, _, _, _)
Paginate(cp, total, size, calls) ==
  IF calls > MaxReentry THEN [currentPage |-> cp, reentries |-> calls, returned |-> FALSE]
  ELSE IF (cp - 1) * size >= total /\ total > 0
    THEN Paginate(CeilDiv(total, size), total, size, calls + 1)
  ELSE [currentPage |-> cp, reentries |-> calls, returned |-> TRUE]

Min(a, b) == IF a < b THEN a ELSE b
Max(a, b) == IF a > b THEN a ELSE b

\* Every way one call of refreshTable can end.
refreshTable(rows, sel, searchText, key, asc, cp, size) ==
  LET q == toLowerCase(trim(searchText))
      filtered == Filter(rows, { i \in 1..Len(rows) : TableKeeps(rows[i], sel, q) }, 1)
      total == Len(filtered)
      pg == Paginate(cp, total, size, 0)
      start == (pg.currentPage - 1) * size
  IN { [currentPage |-> pg.currentPage,
        reentries |-> pg.reentries,
        returned |-> pg.returned,
        list |-> l,
        page |-> SubSeq(l, start + 1, Min(start + size, total)),
        shownCount |-> <<Min(start + size, total) - Min(start, total), total>>,
        pageInfo |-> <<pg.currentPage, Max(1, CeilDiv(total, size))>>]
       : l \in SortedLists(filtered, key, asc) }

(***************************************************************************)
(* The analyses: showHighestLowest, showBestImprovement, showDII           *)
(***************************************************************************)
\* AnalysisKeeps with a selection that is also compared with the region.
AnalysisKeepsRegionToo(r, sel) ==
  \/ sel = S_All
  \/ toLowerCase(r.major_area) = toLowerCase(sel)
  \/ toLowerCase(r.region) = toLowerCase(sel)

\* The rows kept by the filter of the three analyses and of downloadJSON.
AnalysisKeeps(r, sel) ==
  sel = S_All \/ toLowerCase(r.major_area) = toLowerCase(sel)

AnalysisRows(rows, sel) ==
  Filter(rows, { i \in 1..Len(rows) : AnalysisKeeps(rows[i], sel) }, 1)

\* a > b and a < b on numbers: false when either is NaN.
Greater(a, b) == a.t = "num" /\ b.t = "num" /\ a.n > b.n
Less(a, b) == a.t = "num" /\ b.t = "num" /\ a.n < b.n

\* highest / lowest / best: null until a row is taken.
NoEntry == [set |-> FALSE, name |-> Empty, speed |-> JsNull]
Entry(name, v) == [set |-> TRUE, name |-> name, speed |-> v]

\* The loop of showHighestLowest over rows[i..].
RECURSIVE HighLowLoop(_, _, _)
HighLowLoop(rows, i, acc) ==
  IF i > Len(rows) THEN acc
  ELSE LET r == rows[i]
           s == r.y24
       IN IF NotNull(s)
          THEN HighLowLoop(rows, i + 1,
                 [found |-> acc.found + 1,
                  highest |-> IF ~acc.highest.set \/ Greater(s, acc.highest.speed)
                              THEN Entry(r.country, s) ELSE acc.highest,
                  lowest |-> IF ~acc.lowest.set \/ Less(s, acc.lowest.speed)
                             THEN Entry(r.country, s) ELSE acc.lowest])
          ELSE HighLowLoop(rows, i + 1, acc)

\* The loop of showBestImprovement over rows[i..].
RECURSIVE BestLoop(_, _, _)
BestLoop(rows, i, acc) ==
  IF i > Len(rows) THEN acc
  ELSE LET r == rows[i] IN
       IF NotNull(r.growth)
       THEN BestLoop(rows, i + 1,
              [found |-> acc.found + 1,
               best |-> IF ~acc.best.set \/ Greater(r.growth, acc.best.speed)
                        THEN Entry(r.country, r.growth) ELSE acc.best])
       ELSE BestLoop(rows, i + 1, acc)

\* Math.max(...values) and Math.min(...values) of a non-empty list: NaN as
\* soon as one value is NaN.
MathMax(values) ==
  IF \E i \in 1..Len(values) : values[i].t = "nan" THEN JsNaN
  ELSE Num(CHOOSE m \in { values[i].n : i \in 1..Len(values) } :
             \A i \in 1..Len(values) : values[i].n <= m)

MathMin(values) ==
  IF \E i \in 1..Len(values) : values[i].t = "nan" THEN JsNaN
  ELSE Num(CHOOSE m \in { values[i].n : i \in 1..Len(values) } :
             \A i \in 1..Len(values) : values[i].n >= m)

\* The content of the results element.
Result(kind, text, hi, lo, range, found) ==
  [kind |-> kind, text |-> text, hi |-> hi, lo |-> lo, range |-> range, found |-> found]

NoResult == Result("none", Empty, NoEntry, NoEntry, JsNull, 0)
Flash(kind, text) == Result(kind, text, NoEntry, NoEntry, JsNull, 0)

\* HighestLowestOutcome without the return on found === 0.
HighestLowestUnguarded(rows) ==
  LET acc == HighLowLoop(rows, 1, [found |-> 0, highest |-> NoEntry, lowest |-> NoEntry])
  IN IF ~acc.highest.set \/ ~acc.lowest.set
       THEN [threw |-> TRUE, drew |-> FALSE, results |-> NoResult]
     ELSE [threw |-> FALSE, drew |-> TRUE,
           results |-> Result("highLow", Empty, acc.highest, acc.lowest, JsNull, acc.found)]

\* showHighestLowest up to the results element.  threw: the handler ended in
\* a TypeError (a property of null was read); drew: drawRegionBar was reached.
HighestLowestOutcome(rows) ==
  LET acc == HighLowLoop(rows, 1, [found |-> 0, highest |-> NoEntry, lowest |-> NoEntry])
  IN IF acc.found = 0
       THEN [threw |-> FALSE, drew |-> FALSE, results |-> Flash("no2024Data", Empty)]
     ELSE IF ~acc.highest.set \/ ~acc.lowest.set
       THEN [threw |-> TRUE, drew |-> FALSE, results |-> NoResult]
     ELSE [threw |-> FALSE, drew |-> TRUE,
           results |-> Result("highLow", Empty, acc.highest, acc.lowest, JsNull, acc.found)]

BestImprovementOutcome(rows) ==
  LET acc == BestLoop(rows, 1, [found |-> 0, best |-> NoEntry])
  IN IF ~acc.best.set
       THEN [threw |-> FALSE, drew |-> FALSE, results |-> Flash("noGrowthData", Empty)]
     ELSE [threw |-> FALSE, drew |-> TRUE,
           results |-> Result("best", Empty, acc.best, NoEntry, JsNull, acc.found)]

DIIOutcome(rows) ==
  LET withValue == Filter(rows, { i \in 1..Len(rows) : NotNull(rows[i].y24) }, 1)
      values == [i \in 1..Len(withValue) |-> withValue[i].y24]
  IN IF Len(values) = 0
       THEN [threw |-> FALSE, drew |-> FALSE, results |-> Flash("no2024Values", Empty)]
     ELSE [threw |-> FALSE, drew |-> TRUE,
           results |-> Result("dii", Empty,
                              Entry(Empty, MathMax(values)), Entry(Empty, MathMin(values)),
                              Minus(MathMax(values), MathMin(values)), Len(values))]

(***************************************************************************)
(* The charts                                                              *)
(***************************************************************************)
TopCountries == 10
TopGroups == 8

NoChart == [type |-> "none", labels |-> <<>>, data |-> <<>>, arr |-> <<>>]

\* (a, b) => b.val - a.val, as the sort reads it: NaN counts as 0.
DescByValue(a, b) ==
  IF a.val.t = "num" /\ b.val.t = "num"
  THEN (IF b.val.n > a.val.n THEN 1 ELSE IF b.val.n < a.val.n THEN -1 ELSE 0)
  ELSE 0

\* The charts drawRegionBar can leave in regionChart.
drawRegionBar(rows) ==
  LET withValue == Filter(rows, { i \in 1..Len(rows) : NotNull(rows[i].y24) }, 1)
      byCountry == [i \in 1..Len(withValue) |->
                      [name |-> withValue[i].country, val |-> withValue[i].y24]]
      cmp == [i \in 1..Len(byCountry) |-> [j \in 1..Len(byCountry) |->
                DescByValue(byCountry[i], byCountry[j])]]
  IN { LET top == Take(sorted, TopCountries) IN
       [type |-> "horizontalBar",
        labels |-> [i \in 1..Len(top) |-> top[i].name],
        data |-> [i \in 1..Len(top) |-> top[i].val],
        arr |-> <<>>]
       : sorted \in SortOutcomes(byCountry, cmp) }

\* A property name that is an array index: Object.keys lists these first,
\* in ascending numeric order, before the other names in insertion order.
IsArrayIndex(s) == AllDigits(s) /\ (Len(s) = 1 \/ Head(s) # "0")

\* The distinct non-empty trimmed major_area values of rows[i..], first seen first.
RECURSIVE FirstSeen(_, _, _)
FirstSeen(rows, i, seen) ==
  IF i > Len(rows) THEN seen
  ELSE LET ma == trim(rows[i].major_area) IN
       IF ma = Empty \/ \E j \in 1..Len(seen) : seen[j] = ma
       THEN FirstSeen(rows, i + 1, seen)
       ELSE FirstSeen(rows, i + 1, Append(seen, ma))

\* Object.keys(map) for a map whose properties were created in the order names.
ObjectKeys(names) ==
  LET indices == Filter(names, { i \in 1..Len(names) : IsArrayIndex(names[i]) }, 1)
      others == Filter(names, { i \in 1..Len(names) : ~IsArrayIndex(names[i]) }, 1)
      ascending == [i \in 1..Len(indices) |-> [j \in 1..Len(indices) |->
                      IF DigitsValue(indices[i]) < DigitsValue(indices[j]) THEN -1
                      ELSE IF DigitsValue(indices[i]) > DigitsValue(indices[j]) THEN 1
                      ELSE 0]]
  IN StableSort(indices, ascending) \o others

\* map[ma] after the forEach: the sum and the count of the 2024 values that
\* are not null, over the rows of the group.
RECURSIVE SumValues(_)
SumValues(vals) ==
  IF vals = <<>> THEN 0 ELSE Head(vals).n + SumValues(Tail(vals))

GroupTotals(rows, ma) ==
  LET members == Filter(rows, { i \in 1..Len(rows) :
                                  trim(rows[i].major_area) = ma /\ NotNull(rows[i].y24) }, 1)
      vals == [i \in 1..Len(members) |-> members[i].y24]
  IN [sum |-> IF \E i \in 1..Len(vals) : vals[i].t = "nan" THEN JsNaN ELSE Num(SumValues(vals)),
      count |-> Len(vals)]

\* An average as the fraction n / d, d > 0, or NaN.
Fraction(t, n, d) == [t |-> t, n |-> n, d |-> d]

\* map[k].count ? map[k].sum / map[k].count : 0
GroupAverage(g) ==
  IF g.count = 0 THEN Fraction("num", 0, 1)
  ELSE IF g.sum.t = "nan" THEN Fraction("nan", 0, 1)
  ELSE Fraction("num", g.sum.n, g.count)

\* (a, b) => b.avg - a.avg, as the sort reads it: NaN counts as 0.
DescByAverage(a, b) ==
  IF a.avg.t = "num" /\ b.avg.t = "num"
  THEN LET l == b.avg.n * a.avg.d
           r == a.avg.n * b.avg.d
       IN IF l > r THEN 1 ELSE IF l < r THEN -1 ELSE 0
  ELSE 0

\* Number(avg.toFixed(2)), in hundredths: the nearest hundredth, a tie going
\* away from zero.
Hundredths(avg) ==
  IF avg.t = "nan" THEN JsNaN
  ELSE IF avg.n >= 0 THEN Num((200 * avg.n + avg.d) \div (2 * avg.d))
  ELSE Num(0 - ((200 * (0 - avg.n) + avg.d) \div (2 * avg.d)))

\* The charts buildRegionChart can leave in regionChart; arr is the sorted
\* list of groups the labels and the data are sliced from.
buildRegionChart(rows) ==
  LET keys == ObjectKeys(FirstSeen(rows, 1, <<>>))
      arr == [i \in 1..Len(keys) |->
                [k |-> keys[i], avg |-> GroupAverage(GroupTotals(rows, keys[i]))]]
      cmp == [i \in 1..Len(arr) |-> [j \in 1..Len(arr) |-> DescByAverage(arr[i], arr[j])]]
  IN { LET top == Take(sorted, TopGroups) IN
       [type |-> "bar",
        labels |-> [i \in 1..Len(top) |-> top[i].k],
        data |-> [i \in 1..Len(top) |-> Hundredths(top[i].avg)],
        arr |-> sorted]
       : sorted \in SortOutcomes(arr, cmp) }

(***************************************************************************)
(* The exports and the region list                                         *)
(***************************************************************************)
\* The rows kept by the filter of exportVisibleCSV.
ExportKeeps(r, sel, q) ==
  /\ ~(sel # Empty /\ sel # S_All /\ toLowerCase(r.major_area) # toLowerCase(sel))
  /\ ~(q # Empty /\ ~includes(toLowerCase(r.country), q))

ExportRows(rows, sel, searchText) ==
  LET q == toLowerCase(trim(searchText))
  IN Filter(rows, { i \in 1..Len(rows) : ExportKeeps(rows[i], sel, q) }, 1)

NothingSerialized == [kind |-> "none", rows |-> <<>>]

\* The option values buildRegionList leaves in the region select.
buildRegionList(rows) ==
  { S_All } \cup { rows[i].major_area : i \in { j \in 1..Len(rows) : rows[j].major_area # Empty } }

(***************************************************************************)
(* The state of the page.                                                  *)
(***************************************************************************)
VARIABLES
  domReady,       \* the DOMContentLoaded handler has run
  fetchState,     \* fetch("data.csv"): "idle", "pending", "done" or "failed"
  csv,            \* the rows Papa.parse reads from data.csv
  raw,            \* raw parsed rows
  tableRows,      \* processed rows
  currentPage,
  pageSize,
  sortKey,
  sortAsc,
  localStorage,   \* the rows stored under "addedRows"
  regionOptions,  \* the option values of the region select
  selRegion,      \* the value of the region select
  searchBox,      \* the value of the search box
  shown,          \* what the last call of refreshTable listed and rendered
  results,        \* the content of the results element
  regionChart,    \* the chart in the regionChart canvas
  serialized,     \* the rows the last export handed to Papa.unparse / JSON.stringify
  addedCount,
  totalCount,
  uncaught        \* a handler ended in an uncaught TypeError

vars ==
  <<domReady, fetchState, csv, raw, tableRows, currentPage, pageSize, sortKey, sortAsc,
    localStorage, regionOptions, selRegion, searchBox, shown, results, regionChart,
    serialized, addedCount, totalCount, uncaught>>

InitialPageSize == 10

SeqsUpTo(S, n) == UNION { [1..k -> S] : k \in 0..n }

\* The files data.csv can be.
CsvFiles == SeqsUpTo(RawPool, MaxCsvRows)

\* The rows an earlier session can have stored: the records added through
\* the form, and the double-clicked rows of a table whose data.csv had a
\* 2024 text that is no number.
StoredPool ==
  { JsonRow(FormRecord(f)) : f \in { g \in FormPool : FormValid(g) } }
    \cup { JsonRow(normalizeRow(r)) : r \in { x \in RawPool : CoerceYear(x.y24).t = "nan" } }

NothingShown ==
  [list |-> <<>>, page |-> <<>>, shownCount |-> <<0, 0>>, pageInfo |-> <<1, 1>>,
   reentries |-> 0, returned |-> TRUE]

Shown(o) ==
  [list |-> o.list, page |-> o.page, shownCount |-> o.shownCount,
   pageInfo |-> o.pageInfo, reentries |-> o.reentries, returned |-> o.returned]

\* The script has been evaluated; DOMContentLoaded has not fired yet.
Init ==
  /\ domReady = FALSE
  /\ fetchState = "idle"
  /\ csv \in CsvFiles
  /\ raw = <<>>
  /\ tableRows = <<>>
  /\ currentPage = 1
  /\ pageSize = InitialPageSize
  /\ sortKey = NoKey
  /\ sortAsc = TRUE
  /\ localStorage \in SeqsUpTo(StoredPool, MaxSaved)
  /\ regionOptions = {}
  /\ selRegion = Empty
  /\ searchBox = Empty
  /\ shown = NothingShown
  /\ results = NoResult
  /\ regionChart = NoChart
  /\ serialized = NothingSerialized
  /\ addedCount = 0
  /\ totalCount = 0
  /\ uncaught = FALSE

\* A call of refreshTable on the state the handler has built so far.
Refresh(rows, sel, text, key, asc, cp, size) ==
  \E o \in refreshTable(rows, sel, text, key, asc, cp, size) :
    /\ currentPage' = o.currentPage
    /\ shown' = Shown(o)

\* The DOMContentLoaded handler: loadCSV starts the fetch, loadSavedEntries
\* merges the stored rows at the top of tableRows.
DOMContentLoaded ==
  /\ ~domReady
  /\ domReady' = TRUE
  /\ fetchState' = "pending"
  /\ IF Len(localStorage) > 0
     THEN /\ tableRows' = Reverse(localStorage) \o tableRows
          /\ addedCount' = Len(localStorage)
          /\ Refresh(tableRows', selRegion, searchBox, sortKey, sortAsc, currentPage, pageSize)
          /\ regionOptions' = buildRegionList(tableRows')
          /\ selRegion' = S_All
     ELSE UNCHANGED <<tableRows, addedCount, currentPage, shown, regionOptions, selRegion>>
  /\ UNCHANGED <<csv, raw, pageSize, sortKey, sortAsc, localStorage, searchBox, results,
                 regionChart, serialized, totalCount, uncaught>>

\* The fetch resolves: the callback of loadCSV.
FetchResolve ==
  /\ fetchState = "pending"
  /\ fetchState' = "done"
  /\ raw' = csv
  /\ tableRows' = normalizeRaw(raw')
  /\ regionOptions' = buildRegionList(tableRows')
  /\ selRegion' = S_All
  /\ Refresh(tableRows', selRegion', searchBox, sortKey, sortAsc, 1, pageSize)
  /\ regionChart' \in buildRegionChart(tableRows')
  /\ totalCount' = Len(raw')
  /\ UNCHANGED <<domReady, csv, pageSize, sortKey, sortAsc, localStorage, searchBox, results,
                 serialized, addedCount, uncaught>>

\* The fetch rejects: the catch of loadCSV.
FetchReject ==
  /\ fetchState = "pending"
  /\ fetchState' = "failed"
  /\ results' = Flash("fetchFailed", Empty)
  /\ UNCHANGED <<domReady, csv, raw, tableRows, currentPage, pageSize, sortKey, sortAsc,
                 localStorage, regionOptions, selRegion, searchBox, shown, regionChart,
                 serialized, addedCount, totalCount, uncaught>>

\* input on the search box
SearchInput ==
  /\ domReady
  /\ \E text \in SearchPool \ {searchBox} :
       /\ searchBox' = text
       /\ Refresh(tableRows, selRegion, text, sortKey, sortAsc, currentPage, pageSize)
  /\ UNCHANGED <<domReady, fetchState, csv, raw, tableRows, pageSize, sortKey, sortAsc,
                 localStorage, regionOptions, selRegion, results, regionChart, serialized,
                 addedCount, totalCount, uncaught>>

\* change on the region select
onRegionChange ==
  /\ domReady
  /\ \E v \in regionOptions \ {selRegion} :
       /\ selRegion' = v
       /\ Refresh(tableRows, v, searchBox, sortKey, sortAsc, 1, pageSize)
  /\ regionChart' \in buildRegionChart(tableRows)
  /\ UNCHANGED <<domReady, fetchState, csv, raw, tableRows, pageSize, sortKey, sortAsc,
                 localStorage, regionOptions, searchBox, results, serialized, addedCount,
                 totalCount, uncaught>>

\* change on the page-size select
PageSizeChange ==
  /\ domReady
  /\ \E n \in PageSizeOptions \ {pageSize} :
       /\ pageSize' = n
       /\ Refresh(tableRows, selRegion, searchBox, sortKey, sortAsc, 1, n)
  /\ UNCHANGED <<domReady, fetchState, csv, raw, tableRows, sortKey, sortAsc, localStorage,
                 regionOptions, selRegion, searchBox, results, regionChart, serialized,
                 addedCount, totalCount, uncaught>>

\* click on prevPage
PrevPage ==
  /\ domReady
  /\ IF currentPage > 1
     THEN Refresh(tableRows, selRegion, searchBox, sortKey, sortAsc, currentPage - 1, pageSize)
     ELSE UNCHANGED <<currentPage, shown>>
  /\ UNCHANGED <<domReady, fetchState, csv, raw, tableRows, pageSize, sortKey, sortAsc,
                 localStorage, regionOptions, selRegion, searchBox, results, regionChart,
                 serialized, addedCount, totalCount, uncaught>>

\* click on nextPage
NextPage ==
  /\ domReady
  /\ currentPage < MaxPage
  /\ Refresh(tableRows, selRegion, searchBox, sortKey, sortAsc, currentPage + 1, pageSize)
  /\ UNCHANGED <<domReady, fetchState, csv, raw, tableRows, pageSize, sortKey, sortAsc,
                 localStorage, regionOptions, selRegion, searchBox, results, regionChart,
                 serialized, addedCount, totalCount, uncaught>>

\* click on a column header
HeaderSort ==
  /\ domReady
  /\ \E key \in SortKeys :
       /\ sortKey' = key
       /\ sortAsc' = (IF sortKey = key THEN ~sortAsc ELSE TRUE)
       /\ Refresh(tableRows, selRegion, searchBox, key, sortAsc', 1, pageSize)
  /\ UNCHANGED <<domReady, fetchState, csv, raw, tableRows, pageSize, localStorage,
                 regionOptions, selRegion, searchBox, results, regionChart, serialized,
                 addedCount, totalCount, uncaught>>

\* An analysis handler from its outcome on: the results element, then drawRegionBar.
Analysis(o, rows) ==
  /\ uncaught' = (uncaught \/ o.threw)
  /\ results' = (IF o.threw THEN results ELSE o.results)
  /\ IF o.drew THEN regionChart' \in drawRegionBar(rows) ELSE regionChart' = regionChart
  /\ UNCHANGED <<domReady, fetchState, csv, raw, tableRows, currentPage, pageSize, sortKey,
                 sortAsc, localStorage, regionOptions, selRegion, searchBox, shown,
                 serialized, addedCount, totalCount>>

\* click on btn-highlow
showHighestLowest ==
  /\ domReady
  /\ LET rows == AnalysisRows(tableRows, selRegion) IN Analysis(HighestLowestOutcome(rows), rows)

\* click on btn-improve
showBestImprovement ==
  /\ domReady
  /\ LET rows == AnalysisRows(tableRows, selRegion) IN Analysis(BestImprovementOutcome(rows), rows)

\* click on btn-dii
showDII ==
  /\ domReady
  /\ LET rows == AnalysisRows(tableRows, selRegion) IN Analysis(DIIOutcome(rows), rows)

\* click on exportCSV.  downloadFile is the last function of that name in the
\* script, whose body is empty: only the serialization is observable.
exportVisibleCSV ==
  /\ domReady
  /\ serialized' = [kind |-> "csv", rows |-> ExportRows(tableRows, selRegion, searchBox)]
  /\ UNCHANGED <<domReady, fetchState, csv, raw, tableRows, currentPage, pageSize, sortKey,
                 sortAsc, localStorage, regionOptions, selRegion, searchBox, shown, results,
                 regionChart, addedCount, totalCount, uncaught>>

\* click on downloadJSON
downloadJSON ==
  /\ domReady
  /\ LET rows == AnalysisRows(tableRows, selRegion) IN
       serialized' = [kind |-> "json", rows |-> [i \in 1..Len(rows) |-> JsonRow(rows[i])]]
  /\ UNCHANGED <<domReady, fetchState, csv, raw, tableRows, currentPage, pageSize, sortKey,
                 sortAsc, localStorage, regionOptions, selRegion, searchBox, shown, results,
                 regionChart, addedCount, totalCount, uncaught>>

\* saveRowToLocal(row): the stored list is parsed, extended and stored again.
saveRowToLocal(stored, row) == Append(stored, JsonRow(row))

\* double click on a rendered row
RowDblClick ==
  /\ domReady
  /\ Len(localStorage) < MaxStored
  /\ \E i \in 1..Len(shown.page) :
       /\ localStorage' = saveRowToLocal(localStorage, shown.page[i])
       /\ results' = Flash("saved", shown.page[i].country)
  /\ addedCount' = Len(localStorage')
  /\ UNCHANGED <<domReady, fetchState, csv, raw, tableRows, currentPage, pageSize, sortKey,
                 sortAsc, regionOptions, selRegion, searchBox, shown, regionChart,
                 serialized, totalCount, uncaught>>

\* submit on the add form
addRecordFromForm ==
  /\ domReady
  /\ Len(localStorage) < MaxStored
  /\ Len(tableRows) < MaxTableRows
  /\ \E f \in FormPool :
       IF ~FormValid(f)
       THEN UNCHANGED vars
       ELSE /\ tableRows' = <<FormRecord(f)>> \o tableRows
            /\ localStorage' = saveRowToLocal(localStorage, FormRecord(f))
            /\ addedCount' = Len(localStorage')
            /\ regionOptions' = buildRegionList(tableRows')
            /\ selRegion' = S_All
            /\ Refresh(tableRows', selRegion', searchBox, sortKey, sortAsc, currentPage, pageSize)
            /\ results' = Flash("added", trim(f.a_country))
            /\ UNCHANGED <<domReady, fetchState, csv, raw, pageSize, sortKey, sortAsc,
                           searchBox, regionChart, serialized, totalCount, uncaught>>

\* click on clearLocal: the stored rows are removed and the page is reloaded.
clearLocalStorage ==
  /\ domReady
  /\ localStorage' = <<>>
  /\ domReady' = FALSE
  /\ fetchState' = "idle"
  /\ raw' = <<>>
  /\ tableRows' = <<>>
  /\ currentPage' = 1
  /\ pageSize' = InitialPageSize
  /\ sortKey' = NoKey
  /\ sortAsc' = TRUE
  /\ regionOptions' = {}
  /\ selRegion' = Empty
  /\ searchBox' = Empty
  /\ shown' = NothingShown
  /\ results' = NoResult
  /\ regionChart' = NoChart
  /\ serialized' = NothingSerialized
  /\ addedCount' = 0
  /\ totalCount' = 0
  /\ uncaught' = FALSE
  /\ UNCHANGED csv

Next ==
  \/ DOMContentLoaded
  \/ FetchResolve
  \/ FetchReject
  \/ SearchInput
  \/ onRegionChange
  \/ PageSizeChange
  \/ PrevPage
  \/ NextPage
  \/ HeaderSort
  \/ showHighestLowest
  \/ showBestImprovement
  \/ showDII
  \/ exportVisibleCSV
  \/ downloadJSON
  \/ RowDblClick
  \/ addRecordFromForm
  \/ clearLocalStorage

Spec == Init /\ [][Next]_vars

(***************************************************************************)
(* The same page under fewer kinds of user input.  Every behaviour of      *)
(* these specifications is a behaviour of Spec.                            *)
(***************************************************************************)
\* A first visit: nothing is stored under "addedRows".
InitFresh == Init /\ localStorage = <<>>

\* Loading, storing and reloading.
NextLoad ==
  \/ DOMContentLoaded
  \/ FetchResolve
  \/ FetchReject
  \/ RowDblClick
  \/ addRecordFromForm
  \/ clearLocalStorage

SpecLoad == Init /\ [][NextLoad]_vars

\* Searching, selecting a region and sorting the table.
NextSearch ==
  \/ DOMContentLoaded
  \/ FetchResolve
  \/ SearchInput
  \/ onRegionChange
  \/ HeaderSort

SpecSearch == InitFresh /\ [][NextSearch]_vars

\* Searching, selecting a region and exporting the table.
NextExport ==
  \/ DOMContentLoaded
  \/ FetchResolve
  \/ SearchInput
  \/ onRegionChange
  \/ exportVisibleCSV

SpecExport == InitFresh /\ [][NextExport]_vars

\* Paging through the table.
NextPaging ==
  \/ DOMContentLoaded
  \/ FetchResolve
  \/ SearchInput
  \/ onRegionChange
  \/ PageSizeChange
  \/ PrevPage
  \/ NextPage
  \/ HeaderSort
  \/ addRecordFromForm

\* Paging depends on how many rows pass the filter, not on their values: a
\* first visit whose data.csv is made of rows that have a country, a major
\* area that is a name and two numeric year values.
InitPaging ==
  /\ InitFresh
  /\ \A i \in 1..Len(csv) :
       /\ normalizeRow(csv[i]).country # Empty
       /\ normalizeRow(csv[i]).major_area # Empty
       /\ ~IsArrayIndex(normalizeRow(csv[i]).major_area)
       /\ normalizeRow(csv[i]).y24.t = "num"

SpecPaging == InitPaging /\ [][NextPaging]_vars

\* Selecting a region and running the analyses.
NextAnalysis ==
  \/ DOMContentLoaded
  \/ FetchResolve
  \/ onRegionChange
  \/ showHighestLowest
  \/ showBestImprovement
  \/ showDII
  \/ downloadJSON

SpecAnalysis == InitFresh /\ [][NextAnalysis]_vars

(***************************************************************************)
(* Properties of loading and of the records (SpecLoad).                    *)
(***************************************************************************)
Rows == { tableRows[i] : i \in 1..Len(tableRows) }

\* C1: once the fetch of data.csv has completed, tableRows holds every
\* record parsed from the CSV and every record stored under "addedRows":
\* the completion of the fetch removes no stored record from tableRows.
C1_StoredAndParsedRowsKept ==
  fetchState = "done" =>
    /\ \A i \in 1..Len(raw) : normalizeRow(raw[i]) \in Rows
    /\ \A i \in 1..Len(localStorage) : localStorage[i] \in Rows

\* C2: every record of tableRows has a non-empty country, whether it was
\* parsed from the CSV or added through the form.
C2_CountryNeverEmpty ==
  \A i \in 1..Len(tableRows) : tableRows[i].country # Empty

\* The record of tableRows made from raw[i], once the fetch has completed:
\* normalizeRaw fills tableRows and later additions go on top.
ParsedRecord(i) == tableRows[Len(tableRows) - Len(raw) + i]

\* The text of a cell is a decimal numeral.
IsNumeral(s) == AllDigits(s) \/ (s # Empty /\ Head(s) = "-" /\ AllDigits(Tail(s)))
NumeralValue(s) == IF Head(s) = "-" THEN 0 - DigitsValue(Tail(s)) ELSE DigitsValue(s)

\* What C3 asks of a year cell c: null for a missing, blank or "null" text,
\* the number for a numeral, null for any other text.
ExpectedYear(c) ==
  IF ~c.has \/ trim(c.text) = Empty \/ toLowerCase(trim(c.text)) = S_null THEN JsNull
  ELSE IF IsNumeral(trim(c.text)) THEN Num(NumeralValue(trim(c.text)))
  ELSE JsNull

\* C3: normalizeRaw maps the 2023 and 2024 texts of every parsed row to null
\* when the trimmed text is empty or "null" in any case, to the number when
\* the text is numeric, and to null, never NaN, when the text is no number.
C3_YearTextCoercion ==
  fetchState = "done" =>
    \A i \in 1..Len(raw) :
      /\ ParsedRecord(i).y23 = ExpectedYear(raw[i].y23)
      /\ ParsedRecord(i).y24 = ExpectedYear(raw[i].y24)

\* C4: every record of tableRows has growth equal to its 2024 value minus
\* its 2023 value when neither is null, and growth null when either is null.
C4_GrowthDerivation ==
  \A i \in 1..Len(tableRows) :
    LET r == tableRows[i] IN
    IF r.y24 # JsNull /\ r.y23 # JsNull
    THEN r.growth = Minus(r.y24, r.y23)
    ELSE r.growth = JsNull

\* C4 witness: the table holds a parsed record with both values and their
\* difference, and on top of it a form record with one value and no growth.
C4_Witness ==
  /\ fetchState = "done"
  /\ Len(tableRows) > Len(raw)
  /\ Len(raw) > 0
  /\ ParsedRecord(1).growth.t = "num"
  /\ ParsedRecord(1).growth.n # 0
  /\ tableRows[1].y24.t = "num"
  /\ tableRows[1].y23 = JsNull
  /\ tableRows[1].growth = JsNull

(***************************************************************************)
(* Properties of the table (SpecSearch, SpecExport, SpecPaging).           *)
(***************************************************************************)
Count(s, v) == Cardinality({ i \in 1..Len(s) : s[i] = v })
Range(s) == { s[i] : i \in 1..Len(s) }

\* The sequence s holds exactly the rows of tableRows whose index is in idx.
HoldsExactly(s, idx) ==
  \A v \in Range(s) \cup Rows :
    Count(s, v) = Cardinality({ i \in idx : tableRows[i] = v })

\* The selection names the major area of r, in any case.
MajorAreaIs(r, sel) == toLowerCase(r.major_area) = toLowerCase(sel)
\* The selection names the region of r, in any case.
RegionIs(r, sel) == toLowerCase(r.region) = toLowerCase(sel)

\* The search text as the filters read it.
Query == toLowerCase(trim(searchBox))

\* The rows that pass the region select: all of them when nothing or "All"
\* is selected.
PassRegionSelect ==
  { i \in 1..Len(tableRows) :
      selRegion \in {Empty, S_All} \/ MajorAreaIs(tableRows[i], selRegion) }

\* The rows whose country or region contains the search text.
PassFreeText ==
  { i \in 1..Len(tableRows) :
      \/ includes(toLowerCase(tableRows[i].country), Query)
      \/ includes(toLowerCase(tableRows[i].region), Query) }

\* C5: the rows refreshTable lists, before pagination, are exactly the
\* records that pass the region select and whose country or region contains
\* the search text; when no record passes the region select the list is
\* empty for every search text.
C5_ListIsRegionAndFreeText ==
  /\ HoldsExactly(shown.list, PassRegionSelect \cap PassFreeText)
  /\ (PassRegionSelect = {} => shown.list = <<>>)

\* C5 witness: a region and a search text are both set, a record is listed
\* because its region, not its country, contains the text, and another
\* record is left out.
C5_Witness ==
  /\ selRegion \notin {Empty, S_All}
  /\ Query # Empty
  /\ Len(shown.list) < Len(tableRows)
  /\ \E i \in 1..Len(shown.list) :
       /\ ~includes(toLowerCase(shown.list[i].country), Query)
       /\ includes(toLowerCase(shown.list[i].region), Query)

\* C9: the records exportVisibleCSV serializes are exactly the records
\* refreshTable lists, across all pages, for the same region selection and
\* search text.
C9_ExportIsTheListedRows ==
  [][(serialized' # serialized /\ serialized'.kind = "csv")
       => \A v \in Range(serialized'.rows) \cup Range(shown'.list) :
            Count(serialized'.rows, v) = Count(shown'.list, v)]_vars

\* C10: whenever refreshTable has returned, it has returned after finitely
\* many re-entries and currentPage lies between 1 and
\* max(1, ceil(total / pageSize)), total being the number of listed records.
C10_PageWithinRange ==
  /\ shown.returned
  /\ currentPage >= 1
  /\ currentPage <= Max(1, CeilDiv(Len(shown.list), pageSize))

(***************************************************************************)
(* Properties of the analyses and of the region chart (SpecAnalysis).      *)
(***************************************************************************)
\* The subset an analysis works on: every record for "All", else the
\* records whose major area is the selection.
Subset ==
  { i \in 1..Len(tableRows) : selRegion = S_All \/ MajorAreaIs(tableRows[i], selRegion) }

With2024 == { i \in Subset : tableRows[i].y24 # JsNull }
WithGrowth == { i \in Subset : tableRows[i].growth # JsNull }

\* The rows of s are the JSON forms of exactly the rows of tableRows in idx.
HoldsJsonOf(s, idx) ==
  \A v \in Range(s) \cup { JsonRow(r) : r \in Rows } :
    Count(s, v) = Cardinality({ i \in idx : JsonRow(tableRows[i]) = v })

\* C6, as the code has it: for a selection other than "All" the region
\* select keeps a record exactly when the selection equals its major area in
\* any case, whatever its region, and for "All" it keeps every record; this
\* is the subset refreshTable lists, downloadJSON serializes and the three
\* analyses count.
C6_RegionSelectIsMajorArea ==
  [][selRegion # Empty =>
       /\ (Query = Empty => HoldsExactly(shown.list, Subset))
       /\ (serialized' # serialized /\ serialized'.kind = "json")
            => HoldsJsonOf(serialized'.rows, Subset)
       /\ results' # results =>
            /\ results'.kind \in {"highLow", "dii"} => results'.found = Cardinality(With2024)
            /\ results'.kind \in {"no2024Data", "no2024Values"} => With2024 = {}
            /\ results'.kind = "best" => results'.found = Cardinality(WithGrowth)
            /\ results'.kind = "noGrowthData" => WithGrowth = {}]_vars

\* C6 as claimed: the region select keeps a record exactly when the
\* selection equals its major area or its region in any case, and keeps
\* every record for "All".
C6_RegionSelectIsMajorAreaOrRegion ==
  (selRegion # Empty /\ Query = Empty) =>
    HoldsExactly(shown.list,
      { i \in 1..Len(tableRows) :
          \/ selRegion = S_All
          \/ MajorAreaIs(tableRows[i], selRegion)
          \/ RegionIs(tableRows[i], selRegion) })

\* C6 witness: a region is selected, a record whose region is the selection
\* is outside the subset, and the list, the JSON export and the count of
\* showHighestLowest are those of the subset.
C6_Witness ==
  /\ selRegion \notin {Empty, S_All}
  /\ \E i \in 1..Len(tableRows) : i \notin Subset /\ RegionIs(tableRows[i], selRegion)
  /\ Len(shown.list) = Cardinality(Subset)
  /\ serialized.kind = "json"
  /\ Len(serialized.rows) = Cardinality(Subset)
  /\ results.kind = "highLow"
  /\ results.found = Cardinality(With2024)

\* C7: no analysis ends in an error; each ends in its no-data message when
\* no record of the subset has the value it needs, and otherwise reports
\* records (showDII: values) of the subset that have that value.
C7_AnalysesNeverRaise ==
  [][/\ ~uncaught'
     /\ results' # results =>
          /\ results'.kind \in {"no2024Data", "no2024Values"} => With2024 = {}
          /\ results'.kind = "noGrowthData" => WithGrowth = {}
          /\ results'.kind = "highLow" =>
               /\ \E i \in With2024 :
                    results'.hi = Entry(tableRows[i].country, tableRows[i].y24)
               /\ \E i \in With2024 :
                    results'.lo = Entry(tableRows[i].country, tableRows[i].y24)
          /\ results'.kind = "best" =>
               \E i \in WithGrowth :
                 results'.hi = Entry(tableRows[i].country, tableRows[i].growth)
          /\ results'.kind = "dii" =>
               /\ \E i \in With2024 : results'.hi.speed = tableRows[i].y24
               /\ \E i \in With2024 : results'.lo.speed = tableRows[i].y24]_vars

\* C7 witness: with a region selected whose records have no 2024 value, an
\* analysis has ended in its no-data message.
C7_Witness ==
  /\ selRegion \notin {Empty, S_All}
  /\ Subset # {}
  /\ With2024 = {}
  /\ results.kind = "no2024Data"
  /\ ~uncaught

\* The row of tableRows where the group k is first seen.
FirstRowOf(k) == CHOOSE i \in 1..Len(tableRows) :
  /\ trim(tableRows[i].major_area) = k
  /\ \A j \in 1..(i - 1) : trim(tableRows[j].major_area) # k

\* The 2024 values of the group k that are not null.
GroupValues(k) ==
  { i \in 1..Len(tableRows) : trim(tableRows[i].major_area) = k /\ tableRows[i].y24 # JsNull }

RECURSIVE SumOver(_)
SumOver(idx) ==
  IF idx = {} THEN 0
  ELSE LET i == CHOOSE x \in idx : TRUE IN tableRows[i].y24.n + SumOver(idx \ {i})

\* a is the average of the group k: the sum of its values over their number,
\* 0 for a group without a value (NaN when a value is NaN).
IsAverageOf(a, k) ==
  IF GroupValues(k) = {} THEN a.t = "num" /\ a.n = 0
  ELSE IF \E i \in GroupValues(k) : tableRows[i].y24.t = "nan" THEN a.t = "nan"
  ELSE a.t = "num" /\ a.n * Cardinality(GroupValues(k)) = SumOver(GroupValues(k)) * a.d

AverageLess(a, b) == a.t = "num" /\ b.t = "num" /\ a.n * b.d < b.n * a.d
AverageEqual(a, b) == a.t = "num" /\ b.t = "num" /\ a.n * b.d = b.n * a.d

\* C8: buildRegionChart gives every group the sum of its 2024 values that
\* are present over the number of its records that have one (0 for a group
\* with none), and lists the groups by descending average, groups of equal
\* average in the order they are first seen.
C8_RegionAveragesDescending ==
  regionChart.type = "bar" =>
    LET arr == regionChart.arr IN
    /\ { arr[i].k : i \in 1..Len(arr) }
         = { trim(tableRows[i].major_area) : i \in 1..Len(tableRows) } \ {Empty}
    /\ \A i \in 1..Len(arr) : IsAverageOf(arr[i].avg, arr[i].k)
    /\ \A i, j \in 1..Len(arr) :
         i < j => /\ ~AverageLess(arr[i].avg, arr[j].avg)
                  /\ AverageEqual(arr[i].avg, arr[j].avg)
                       => FirstRowOf(arr[i].k) < FirstRowOf(arr[j].k)

====
